---- MODULE Spec2Model ----
(***************************************************************************)
(* Model of the metrics adjustment and aggregation engine of the OOH ad    *)
(* simulator (src/app.py): the per-row Metric Adjuster                     *)
(* (calculate_metrics_row), the correction factor resolution, the          *)
(* full-selection and displayed-subset aggregates and the demographic      *)
(* allocation of tab 2.                                                    *)
(*                                                                         *)
(* Numbers.  The program computes in IEEE doubles; the model computes in   *)
(* exact rationals <<n, d>> (d > 0, lowest terms), so an equality of the   *)
(* model is an equality "within floating-point tolerance" of the program.  *)
(* A denominator of 0 is a non-finite double: <<0, 0>> is NaN (pandas'     *)
(* null of a float column), <<1, 0>> is inf.                               *)
(*                                                                         *)
(* Strings.  The Korean literals of the source are written in ASCII:       *)
(*   '관광안내판' -> "tourist-info-panel"   '포스터' -> "poster"           *)
(*   '디지털' -> "digital"                  '가로변 쉘터' -> "roadside"    *)
(*   '기본' -> "default"   '디지털 공식 미적용' -> "no-digital-formula"    *)
(*   '디지털 풀 구좌' -> "digital-full-slot"   '전체' -> "all"             *)
(*   '패키지' -> "package"   '관심 매체' -> "custom"                       *)
(*   '강남D' -> "GangnamD" (and the other region packages likewise)        *)
(***************************************************************************)
EXTENDS Integers, Sequences, FiniteSets, TLC

VARIABLES
    \* one application of calculate_metrics_row (RowSpec)
    row, row_pc, adj,
    \* load_data: the client, the six fetch tasks of the thread pool, the
    \* position of the collecting loop, the collected keys, a raised
    \* exception, the position of load_data and what it returned
    client, fetch, collect_i, data, raised, load_pc, loaded,
    \* the loaded tables (rows of the selected month)
    kpi, digital, demographics, factor_df,
    \* the sidebar and tab widgets
    filter_mode, selected_package_option, input_pkg_type, found_ids,
    selected_shelter_type, selected_media_type, search_keyword,
    selected_gender, selected_age_code, calc_mode, sort_col_ui, top_n_input,
    \* the script run and what it computed
    pc, view, merged, full, final_df, cur, tab2

rowVars == <<row, row_pc, adj>>
loadVars == <<client, fetch, collect_i, data, raised, load_pc, loaded>>
dataVars == <<kpi, digital, demographics, factor_df>>
selVars == <<filter_mode, selected_package_option, input_pkg_type, found_ids>>
typeFilterVars == <<selected_shelter_type, selected_media_type>>
demoFilterVars == <<selected_gender, selected_age_code>>
widgetVars == <<selVars, typeFilterVars, search_keyword, demoFilterVars,
                calc_mode, sort_col_ui, top_n_input>>
outVars == <<view, merged, full, final_df, cur, tab2>>
vars == <<rowVars, loadVars, dataVars, widgetVars, pc, outVars>>

----------------------------------------------------------------------------
(* Rational arithmetic with pandas/numpy NaN semantics *)

Abs(i) == IF i < 0 THEN -i ELSE i

RECURSIVE GCD(_, _)
GCD(a, b) == IF b = 0 THEN a ELSE GCD(b, a % b)

NaN == <<0, 0>>
Inf == <<1, 0>>

\* pd.isnull of a float cell; also true of inf in the model, which no
\* computation of the program produces (every division is by a constant
\* or is guarded), so that arithmetic on it is never needed
IsNull(x) == x[2] = 0

\* the rational n/d in lowest terms with a positive denominator
Rat(n, d) ==
    LET g == GCD(Abs(n), Abs(d))
        s == IF d < 0 THEN -1 ELSE 1
    IN  IF d = 0 THEN (IF n = 0 THEN NaN ELSE Inf)
        ELSE <<(s * n) \div g, (s * d) \div g>>

Num(i) == <<i, 1>>

\* products and sums reduce by the common factors first, so that the
\* intermediate integers stay small
RMul(x, y) ==
    IF IsNull(x) \/ IsNull(y) THEN NaN
    ELSE LET g1 == GCD(Abs(x[1]), y[2])
             g2 == GCD(Abs(y[1]), x[2])
         IN  Rat((x[1] \div g1) * (y[1] \div g2), (x[2] \div g2) * (y[2] \div g1))

RAdd(x, y) ==
    IF IsNull(x) \/ IsNull(y) THEN NaN
    ELSE LET g == GCD(x[2], y[2])
         IN  Rat(x[1] * (y[2] \div g) + y[1] * (x[2] \div g), (x[2] \div g) * y[2])

RSub(x, y) == RAdd(x, IF IsNull(y) THEN NaN ELSE <<-y[1], y[2]>>)

\* numpy float division: x / 0 is inf (nan for 0 / 0), never a fault
RDiv(x, y) ==
    IF IsNull(x) \/ IsNull(y) THEN NaN
    ELSE IF y[1] = 0 THEN (IF x[1] = 0 THEN NaN ELSE Inf)
    ELSE RMul(x, Rat(y[2], y[1]))

\* x > y on doubles: False whenever an operand is NaN
RGt(x, y) ==
    /\ ~IsNull(x) /\ ~IsNull(y)
    /\ LET g == GCD(x[2], y[2])
       IN  x[1] * (y[2] \div g) > y[1] * (x[2] \div g)

\* Python's max(x, 0)
RMax0(x) == IF RGt(x, Num(0)) THEN x ELSE Num(0)

----------------------------------------------------------------------------
(* 4.2 Metric Adjuster: calculate_metrics_row *)

Modes == {"default", "no-digital-formula", "digital-full-slot"}

\* mutant of IsCaseA: "or" for "and"
IsCaseA_Or(r) == (r.shelter_type = "tourist-info-panel") \/ (r.media_type = "poster")

\* Case A: tourist information panel and poster
IsCaseA(r) == (r.shelter_type = "tourist-info-panel") /\ (r.media_type = "poster")

\* Case B: does the digital formula apply
apply_digital_formula(r) == (r.package_type = "D") \/ (r.media_type = "digital")

share_of_time(r, mode) ==
    IF mode = "digital-full-slot" THEN Rat(5, 100) ELSE r.share_of_time

\* mutant of time_factor: the clamp max(., 0) left out
time_factor_NoClamp(stay_time) == RDiv(RAdd(RSub(stay_time, Num(1)), Num(30)), Num(30))

time_factor(stay_time) == RDiv(RAdd(RMax0(RSub(stay_time, Num(1))), Num(30)), Num(30))

\* time_factor * k * share_of_time * 0.5, multiplied left to right
DigitalFormula(r, mode, k) ==
    RMul(RMul(RMul(time_factor(r.stay_time), k), share_of_time(r, mode)), Rat(1, 2))

\* mutant of calculate_metrics_row: Case B decided before Case A
calculate_metrics_row_BFirst(r, mode) ==
    IF mode = "no-digital-formula" THEN <<r.rots, r.reach>>
    ELSE IF apply_digital_formula(r) /\ ~IsNull(r.stay_time)
    THEN <<DigitalFormula(r, mode, r.rots), DigitalFormula(r, mode, r.reach)>>
    ELSE IF IsCaseA(r) THEN <<RDiv(r.rots, Num(2)), RDiv(r.reach, Num(2))>>
    ELSE <<r.rots, r.reach>>

\* mutant of calculate_metrics_row: Case A decided before the mode
calculate_metrics_row_AFirst(r, mode) ==
    IF IsCaseA(r) THEN <<RDiv(r.rots, Num(2)), RDiv(r.reach, Num(2))>>
    ELSE IF mode = "no-digital-formula" THEN <<r.rots, r.reach>>
    ELSE IF apply_digital_formula(r) /\ ~IsNull(r.stay_time)
    THEN <<DigitalFormula(r, mode, r.rots), DigitalFormula(r, mode, r.reach)>>
    ELSE <<r.rots, r.reach>>

calculate_metrics_row(r, mode) ==
    IF mode = "no-digital-formula" THEN <<r.rots, r.reach>>
    ELSE IF IsCaseA(r) THEN <<RDiv(r.rots, Num(2)), RDiv(r.reach, Num(2))>>
    ELSE IF apply_digital_formula(r) THEN
        IF ~IsNull(r.stay_time)
        THEN <<DigitalFormula(r, mode, r.rots), DigitalFormula(r, mode, r.reach)>>
        ELSE <<r.rots, r.reach>>
    ELSE <<r.rots, r.reach>>

----------------------------------------------------------------------------
(* Series.sum(): NaN entries are skipped (skipna) *)

RECURSIVE nansum(_)
nansum(xs) ==
    IF xs = <<>> THEN Num(0)
    ELSE RAdd(IF IsNull(Head(xs)) THEN Num(0) ELSE Head(xs), nansum(Tail(xs)))

\* the column f of a frame, as a sequence
Column(frame, f) == [i \in 1..Len(frame) |-> frame[i][f]]

----------------------------------------------------------------------------
(* 4.3 Correction Factor Resolver *)

region_pkg_weights ==
    [GangnamD |-> Rat(5430, 10000), SeochoD |-> Rat(7165, 10000),
     ItaewonD |-> Rat(3311, 10000), JongnoD |-> Rat(4892, 10000),
     JongnoJungguMD |-> Rat(5442, 10000)]

region_pkg_weights_map == region_pkg_weights

\* factor_df['quantity'].max()
MaxOf(S) == CHOOSE q \in S : \A r \in S : r <= q

Min(a, b) == IF a < b THEN a ELSE b

\* factor_df is modelled as a function from the quantities that have a row
\* to their correction_factor; found_val is
\* factor_df.loc[factor_df['quantity'] == lookup_qty, 'correction_factor']

\* mutant of correction_val_of: the selection size is not capped at max_qty
correction_val_of_NoCap(total_shelters, fmode, option, fdf) ==
    IF total_shelters > 0 THEN
        IF fmode = "package" /\ option \in DOMAIN region_pkg_weights
        THEN region_pkg_weights[option]
        ELSE IF total_shelters \in DOMAIN fdf THEN fdf[total_shelters] ELSE Num(0)
    ELSE Num(0)

\* mutant of correction_val_of: the quantity table is consulted first
correction_val_of_TableFirst(total_shelters, fmode, option, fdf) ==
    IF total_shelters > 0 THEN
        IF Min(total_shelters, MaxOf(DOMAIN fdf)) \in DOMAIN fdf
        THEN fdf[Min(total_shelters, MaxOf(DOMAIN fdf))]
        ELSE IF fmode = "package" /\ option \in DOMAIN region_pkg_weights
        THEN region_pkg_weights[option]
        ELSE Num(0)
    ELSE Num(0)

\* full selection: correction_val
correction_val_of(total_shelters, fmode, option, fdf) ==
    IF total_shelters > 0 THEN
        IF fmode = "package" /\ option \in DOMAIN region_pkg_weights
        THEN region_pkg_weights[option]
        ELSE LET max_qty == MaxOf(DOMAIN fdf)
                 lookup_qty == Min(total_shelters, max_qty)
             IN  IF lookup_qty \in DOMAIN fdf THEN fdf[lookup_qty] ELSE Num(0)
    ELSE Num(0)

\* mutant of cur_correction_of: a gap takes the factor of the largest quantity
cur_correction_of_Neighbour(cur_count, fmode, option, fdf) ==
    IF cur_count > 0 THEN
        IF fmode = "package" /\ option \in DOMAIN region_pkg_weights_map
        THEN region_pkg_weights_map[option]
        ELSE LET max_qty == MaxOf(DOMAIN fdf)
                 lookup_qty == Min(cur_count, max_qty)
             IN  IF lookup_qty \in DOMAIN fdf THEN fdf[lookup_qty] ELSE fdf[max_qty]
    ELSE Num(0)

\* displayed subset: cur_correction
cur_correction_of(cur_count, fmode, option, fdf) ==
    IF cur_count > 0 THEN
        IF fmode = "package" /\ option \in DOMAIN region_pkg_weights_map
        THEN region_pkg_weights_map[option]
        ELSE LET max_qty == MaxOf(DOMAIN fdf)
                 lookup_qty == Min(cur_count, max_qty)
             IN  IF lookup_qty \in DOMAIN fdf THEN fdf[lookup_qty] ELSE Num(0)
    ELSE Num(0)

\* mutant of freq_of: the guard tests the ROTS total
freq_of_GuardRots(cur_rots, final_cur_reach) ==
    IF RGt(cur_rots, Num(0)) THEN RDiv(cur_rots, final_cur_reach) ELSE Num(0)

\* freq = (cur_rots / final_cur_reach) if final_cur_reach > 0 else 0
freq_of(cur_rots, final_cur_reach) ==
    IF RGt(final_cur_reach, Num(0)) THEN RDiv(cur_rots, final_cur_reach) ELSE Num(0)

----------------------------------------------------------------------------
(* 4.5 Demographic Allocator: the per-unit ratio *)

\* np.where(final_df['reach'] > 0, final_df['adj_reach'] / final_df['reach'], 1.0)
calc_ratio(reach, adj_reach) ==
    IF RGt(reach, Num(0)) THEN RDiv(adj_reach, reach) ELSE Num(1)

\* Series.fillna(1.0)
fillna1(x) == IF IsNull(x) THEN Num(1) ELSE x

----------------------------------------------------------------------------
(* 1.2 load_data: the six tables *)

\* the keys of tables, in the order the fetches are submitted and collected
TableKeys == <<"digital", "factor", "kpi", "package", "shelter", "demographics">>
TableSet == {TableKeys[i] : i \in 1..Len(TableKeys)}

\* mutant of load_result_of: after an exception the collected tables are
\* returned
load_result_of_Partial(exc, collected) ==
    [t \in TableSet |-> IF t \in collected THEN "table" ELSE "None"]

\* what load_data returns: the six tables, or six None after an exception
load_result_of(exc, collected) ==
    IF exc THEN [t \in TableSet |-> "None"] ELSE [t \in TableSet |-> "table"]

\* load_data returned the six tables: every fetch succeeded and was
\* collected
LoadedOk ==
    /\ client = "ok"
    /\ fetch = [t \in TableSet |-> "ok"]
    /\ collect_i = Len(TableKeys) + 1
    /\ data = TableSet
    /\ raised = FALSE
    /\ load_pc = "returned"
    /\ loaded = load_result_of(FALSE, TableSet)

----------------------------------------------------------------------------
(* The loaded tables *)

NumUnits == 2
MaxAge == 2
MaxQty == 2

Units == 1..NumUnits
Genders == {"M", "F"}
Ages == 1..MaxAge

\* the kpi and digital fields of one unit: a roadside poster with no digital
\* row, a tourist-info-panel poster, a poster with a digital row (the
\* digital formula applies to it in a 'D' package only), a digital unit
\* whose share_of_time is null and a digital unit whose Reach is 0
UnitKinds ==
    { [shelter_type |-> "roadside", media_type |-> "poster",
       stay_time |-> NaN, share_of_time |-> NaN, rots |-> Num(1000), reach |-> Num(400)],
      [shelter_type |-> "tourist-info-panel", media_type |-> "poster",
       stay_time |-> Num(10), share_of_time |-> Rat(1, 5), rots |-> Num(1600), reach |-> Num(1000)],
      [shelter_type |-> "roadside", media_type |-> "poster",
       stay_time |-> Num(10), share_of_time |-> Rat(1, 5), rots |-> Num(1000), reach |-> Num(500)],
      [shelter_type |-> "roadside", media_type |-> "digital",
       stay_time |-> Num(10), share_of_time |-> NaN, rots |-> Num(1000), reach |-> Num(500)],
      [shelter_type |-> "roadside", media_type |-> "digital",
       stay_time |-> Num(10), share_of_time |-> Rat(1, 5), rots |-> Num(1000), reach |-> Num(0)] }

\* the demographics rows of one unit: "full" splits the unit's kpi values
\* over three (gender, age) cells, "part" has two of the three cells (the
\* rows do not add up to the kpi row), "none" has no row
DemoLayouts == {"full", "part", "none"}

DemoRow(u, g, a, k, pr, pq) ==
    [ftr_idn |-> u, gender |-> g, age |-> a,
     rots |-> RMul(k.rots, pr), reach |-> RMul(k.reach, pq)]

DemoRowsOf(u, k, layout) ==
    LET m1 == DemoRow(u, "M", 1, k, Rat(2, 5), Rat(1, 2))
        f1 == DemoRow(u, "F", 1, k, Rat(1, 5), Rat(1, 4))
        fn == DemoRow(u, "F", MaxAge, k, Rat(2, 5), Rat(1, 4))
    IN  IF layout = "full" THEN <<m1, f1, fn>>
        ELSE IF layout = "part" THEN <<m1, f1>>
        ELSE <<>>

UnitData == (UnitKinds \X {"full"}) \cup
            ({k \in UnitKinds : IsNull(k.stay_time)} \X {"part", "none"})

RECURSIVE DemoTable(_, _)
DemoTable(ud, u) ==
    IF u > NumUnits THEN <<>>
    ELSE DemoRowsOf(u, ud[u][1], ud[u][2]) \o DemoTable(ud, u + 1)

\* kpi.shelter_name: "Sa" for unit 1, "sb" for unit 2, null for the others
ShelterNameOf(u) ==
    IF u = 1 THEN [isnull |-> FALSE, chars |-> <<"S", "a">>]
    ELSE IF u = 2 THEN [isnull |-> FALSE, chars |-> <<"s", "b">>]
    ELSE [isnull |-> TRUE, chars |-> <<>>]

\* the kpi and digital tables of the unit data ud
kpi_of(ud) ==
    [u \in Units |->
        [shelter_name |-> ShelterNameOf(u),
         shelter_type |-> ud[u][1].shelter_type, media_type |-> ud[u][1].media_type,
         rots |-> ud[u][1].rots, reach |-> ud[u][1].reach]]

digital_of(ud) ==
    [u \in Units |->
        [stay_time |-> ud[u][1].stay_time, share_of_time |-> ud[u][1].share_of_time]]

\* correction_factor of the row of quantity q
FactorOf(q) == Rat(10 - q, 10)

FactorTables == {[q \in D |-> FactorOf(q)] : D \in (SUBSET (1..MaxQty)) \ {{}}}

\* the stored packages: package_name -> package_type and unit ids
package == [GangnamD |-> [package_type |-> "D", ids |-> Units]]

PackageOptions == {"all-digital", "all-poster"} \cup DOMAIN package

----------------------------------------------------------------------------
(* 3. Sidebar: the selection *)

\* pkg_mapping: the package_type of every unit of the selection context
pkg_mapping_of(fmode, option, ptype, ids) ==
    IF fmode = "package" THEN
        IF option = "all-digital" THEN [u \in Units |-> "D"]
        ELSE IF option = "all-poster" THEN [u \in Units |-> "P"]
        ELSE [u \in package[option].ids |-> package[option].package_type]
    ELSE [u \in ids |-> ptype]

\* str.lower() on the letters the model uses
LowerMap == [S |-> "s", A |-> "a", B |-> "b", Z |-> "z"]
Lower(c) == IF c \in DOMAIN LowerMap THEN LowerMap[c] ELSE c
Fold(str) == [i \in 1..Len(str) |-> Lower(str[i])]

\* Series.str.contains(keyword, case=False, na=False) for one shelter_name;
\* names and keywords are sequences of letters (a keyword of letters is a
\* literal pattern), a null name never matches
Contains(name, keyword) ==
    /\ ~name.isnull
    /\ \E i \in 0..(Len(name.chars) - Len(keyword)) :
          SubSeq(Fold(name.chars), i + 1, i + Len(keyword)) = Fold(keyword)

\* current_context_df: the kpi rows of the package's units
current_context_of(pkg_shelters) == pkg_shelters \cap DOMAIN kpi

avail_shelter_types_of(context) == {kpi[u].shelter_type : u \in context}
avail_media_types_of(context) == {kpi[u].media_type : u \in context}

\* pkg_shelters after the shelter-type and media-type filters
pkg_shelters_of(option, shelter_type, media_type) ==
    LET pkg_shelters == DOMAIN pkg_mapping_of("package", option, "none", {})
    IN  IF pkg_shelters # {}
        THEN {u \in current_context_of(pkg_shelters) :
                /\ (shelter_type # "all" => kpi[u].shelter_type = shelter_type)
                /\ (media_type # "all" => kpi[u].media_type = media_type)}
        ELSE pkg_shelters

\* mutant of search_result_of: the search does not narrow the id set
search_result_of_Ignored(pkg_shelters, keyword) == pkg_shelters

\* the search box: an empty keyword or an empty id set skips the search
search_result_of(pkg_shelters, keyword) ==
    IF keyword # <<>> /\ pkg_shelters # {}
    THEN {u \in pkg_shelters \cap DOMAIN kpi : Contains(kpi[u].shelter_name, keyword)}
    ELSE pkg_shelters

\* final_selected_idns: in package mode the filtered and searched units of
\* the package, in custom mode the entered ids that have a kpi row
final_selected_idns_of(fmode, option, ptype, ids, shelter_type, media_type, keyword) ==
    IF fmode = "package"
    THEN search_result_of(pkg_shelters_of(option, shelter_type, media_type), keyword)
    ELSE ids \cap DOMAIN kpi

----------------------------------------------------------------------------
(* 4.1 Data merge *)

is_demo_filtered_of(gender, age_code) == (gender # "all") \/ (age_code # 0)

\* demo_subset_mask / demo_mask, for the units ids
DemoMask(r, ids, gender, age_code) ==
    /\ r.ftr_idn \in ids
    /\ (gender # "all" => r.gender = gender)
    /\ (age_code # 0 => r.age = age_code)

\* mutant of RawOf: a unit with no matching row keeps its summary values
RawOf_KeepSummary(u, demo, gender, age_code) ==
    LET rows == SelectSeq(demo, LAMBDA r : DemoMask(r, {u}, gender, age_code))
    IN  IF is_demo_filtered_of(gender, age_code) /\ rows # <<>>
        THEN [rots |-> nansum(Column(rows, "rots")), reach |-> nansum(Column(rows, "reach"))]
        ELSE [rots |-> kpi[u].rots, reach |-> kpi[u].reach]

\* grouped_demo merged on the kpi row: the sums of the matching rows, 0 for
\* a unit that has none (fillna(0))
RawOf(u, demo, gender, age_code) ==
    IF is_demo_filtered_of(gender, age_code) THEN
        LET rows == SelectSeq(demo, LAMBDA r : DemoMask(r, {u}, gender, age_code))
        IN  [rots |-> nansum(Column(rows, "rots")), reach |-> nansum(Column(rows, "reach"))]
    ELSE [rots |-> kpi[u].rots, reach |-> kpi[u].reach]

MergedRow(u, pkg_mapping, mode, gender, age_code) ==
    LET raw == RawOf(u, demographics, gender, age_code)
        r == [ftr_idn |-> u,
              shelter_type |-> kpi[u].shelter_type, media_type |-> kpi[u].media_type,
              package_type |-> pkg_mapping[u],
              stay_time |-> digital[u].stay_time, share_of_time |-> digital[u].share_of_time,
              rots |-> raw.rots, reach |-> raw.reach]
        a == calculate_metrics_row(r, mode)
    IN  [ftr_idn |-> u, reach |-> r.reach, rots |-> r.rots,
         adj_rots |-> a[1], adj_reach |-> a[2]]

\* the selected units in the order of the kpi table
IdSeq(ids) == SelectSeq([i \in 1..NumUnits |-> i], LAMBDA u : u \in ids)

merged_of(ids, pkg_mapping, mode, gender, age_code) ==
    LET sq == IdSeq(ids)
    IN  [i \in 1..Len(sq) |-> MergedRow(sq[i], pkg_mapping, mode, gender, age_code)]

----------------------------------------------------------------------------
(* 4.3 / 4.4 The two aggregates *)

full_of(m, fmode, option, fdf) ==
    LET total_shelters == Len(m)
        sum_adj_rots == nansum(Column(m, "adj_rots"))
        sum_adj_reach == nansum(Column(m, "adj_reach"))
        correction_val == correction_val_of(total_shelters, fmode, option, fdf)
    IN  [total_shelters |-> total_shelters, sum_adj_rots |-> sum_adj_rots,
         sum_adj_reach |-> sum_adj_reach, correction_val |-> correction_val,
         final_total_reach |-> RMul(sum_adj_reach, correction_val)]

\* a sorts strictly before b in sort_values(key, ascending=False): a larger
\* value first, NaN last
Before(a, b, key) == (~IsNull(a[key]) /\ IsNull(b[key])) \/ RGt(a[key], b[key])

\* the orders sort_values may give (the default sort is not stable: rows
\* with equal keys come in any order)
SortedOrders(m, key) ==
    {p \in [1..Len(m) -> 1..Len(m)] :
        /\ \A i, j \in 1..Len(m) : i # j => p[i] # p[j]
        /\ \A i, j \in 1..Len(m) : i < j => ~Before(m[p[j]], m[p[i]], key)}

sort_target_of(sort_col) == IF sort_col = "ROTS" THEN "adj_rots" ELSE "adj_reach"

\* final_df = merged.sort_values(...).head(top_n), for the order p
final_df_of(m, p, top_n) ==
    IF top_n > 0 THEN [i \in 1..Min(top_n, Len(m)) |-> m[p[i]]]
    ELSE [i \in 1..Len(m) |-> m[p[i]]]

cur_of(fdfr, fmode, option, fdf) ==
    LET cur_count == Len(fdfr)
        cur_rots == nansum(Column(fdfr, "adj_rots"))
        cur_reach == nansum(Column(fdfr, "adj_reach"))
        cur_correction == cur_correction_of(cur_count, fmode, option, fdf)
        final_cur_reach == RMul(cur_reach, cur_correction)
    IN  [cur_count |-> cur_count, cur_rots |-> cur_rots, cur_reach |-> cur_reach,
         cur_correction |-> cur_correction, final_cur_reach |-> final_cur_reach,
         freq |-> freq_of(cur_rots, final_cur_reach)]

----------------------------------------------------------------------------
(* 4.4.2 Tab 2: the demographic allocation *)

\* ratio_map: ftr_idn -> calc_ratio for the rows of final_df
ratio_map_of(fdfr) ==
    [u \in {fdfr[i].ftr_idn : i \in 1..Len(fdfr)} |->
        LET r == CHOOSE x \in {fdfr[i] : i \in 1..Len(fdfr)} : x.ftr_idn = u
        IN  calc_ratio(r.reach, r.adj_reach)]

\* target_demo.join(ratio_map, on='ftr_idn') then fillna(1.0)
JoinedRatio(ratio_map, u) ==
    fillna1(IF u \in DOMAIN ratio_map THEN ratio_map[u] ELSE NaN)

\* target_demo with calc_ratio, adj_demo_rots and adj_demo_reach
target_demo_of(demo, ids, gender, age_code, ratio_map) ==
    LET rows == SelectSeq(demo, LAMBDA r : DemoMask(r, ids, gender, age_code))
    IN  [i \in 1..Len(rows) |->
            LET ratio == JoinedRatio(ratio_map, rows[i].ftr_idn)
            IN  [ftr_idn |-> rows[i].ftr_idn, gender |-> rows[i].gender,
                 age |-> rows[i].age, rots |-> rows[i].rots, reach |-> rows[i].reach,
                 calc_ratio |-> ratio,
                 adj_demo_rots |-> RMul(rows[i].rots, ratio),
                 adj_demo_reach |-> RMul(rows[i].reach, ratio)]]

\* one group of groupby(...)[['adj_demo_rots', 'adj_demo_reach']].sum(), its
\* adj_demo_reach multiplied by the correction factor
GroupSum(rows, correction) ==
    [adj_demo_rots |-> nansum(Column(rows, "adj_demo_rots")),
     adj_demo_reach |-> RMul(nansum(Column(rows, "adj_demo_reach")), correction)]

gender_summ_of(td, correction) ==
    [g \in {td[i].gender : i \in 1..Len(td)} |->
        GroupSum(SelectSeq(td, LAMBDA r : r.gender = g), correction)]

age_summ_of(td, correction) ==
    [a \in {td[i].age : i \in 1..Len(td)} |->
        GroupSum(SelectSeq(td, LAMBDA r : r.age = a), correction)]

\* mutant of pivot_demo_of: the correction factor is not applied
pivot_demo_of_NoCorrection(td, correction) ==
    [ag \in {<<td[i].age, td[i].gender>> : i \in 1..Len(td)} |->
        GroupSum(SelectSeq(td, LAMBDA r : r.age = ag[1] /\ r.gender = ag[2]), Num(1))]

pivot_demo_of(td, correction) ==
    [ag \in {<<td[i].age, td[i].gender>> : i \in 1..Len(td)} |->
        GroupSum(SelectSeq(td, LAMBDA r : r.age = ag[1] /\ r.gender = ag[2]), correction)]

NoTab2 == [status |-> "none", target_demo |-> <<>>, gender_summ |-> <<>>,
           age_summ |-> <<>>, pivot_demo |-> <<>>]

\* tab 2 for the joined rows td of target_demo
tab2_of(demo, td, cur_correction) ==
    IF demo = <<>> THEN [NoTab2 EXCEPT !.status = "warning"]
    ELSE IF td = <<>> THEN [NoTab2 EXCEPT !.status = "info"]
    ELSE [status |-> "charts", target_demo |-> td,
          gender_summ |-> gender_summ_of(td, cur_correction),
          age_summ |-> age_summ_of(td, cur_correction),
          pivot_demo |-> pivot_demo_of(td, cur_correction)]

----------------------------------------------------------------------------
(* Inputs of one row *)

\* kpi.shelter_type / kpi.media_type after astype(str).str.strip(): a missing
\* value has become the string "nan"
ShelterTypes == {"tourist-info-panel", "roadside", "nan"}
MediaTypes == {"poster", "digital", "nan"}
\* package_type of pkg_mapping; "nan" is any value that is not 'D' or 'P'
PackageTypes == {"D", "P", "nan"}
StayTimes == {NaN, Num(0), Rat(1, 2), Num(1), Num(10)}
ShareOfTimes == {NaN, Rat(1, 5), Num(1)}
RawValues == {Num(0), Num(500), Num(1000)}

Rows == [shelter_type : ShelterTypes, media_type : MediaTypes,
         package_type : PackageTypes, stay_time : StayTimes,
         share_of_time : ShareOfTimes, rots : RawValues, reach : RawValues]

NoAdj == <<NaN, NaN>>

NoFull == [total_shelters |-> 0, sum_adj_rots |-> Num(0), sum_adj_reach |-> Num(0),
           correction_val |-> Num(0), final_total_reach |-> Num(0)]
NoCur == [cur_count |-> 0, cur_rots |-> Num(0), cur_reach |-> Num(0),
          cur_correction |-> Num(0), final_cur_reach |-> Num(0), freq |-> Num(0)]

\* nothing computed: the variables of a script run that has not reached
\* the main block
NoOutput ==
    /\ merged = <<>>
    /\ full = NoFull
    /\ final_df = <<>>
    /\ cur = NoCur
    /\ tab2 = NoTab2

ClearOutput ==
    /\ merged' = <<>>
    /\ full' = NoFull
    /\ final_df' = <<>>
    /\ cur' = NoCur
    /\ tab2' = NoTab2

\* the widgets as the first run renders them
DefaultWidgets ==
    /\ filter_mode = "package"
    /\ selected_package_option = "all-digital"
    /\ input_pkg_type = "none"
    /\ found_ids = {}
    /\ selected_shelter_type = "all"
    /\ selected_media_type = "all"
    /\ search_keyword = <<>>
    /\ selected_gender = "all"
    /\ selected_age_code = 0
    /\ sort_col_ui = "ROTS"
    /\ top_n_input = NumUnits

RowInit ==
    /\ row \in Rows
    /\ calc_mode \in Modes
    /\ row_pc = "pending"
    /\ adj = NoAdj
    /\ LoadedOk
    /\ kpi = <<>> /\ digital = <<>> /\ demographics = <<>> /\ factor_df = <<>>
    /\ DefaultWidgets
    /\ pc = "idle" /\ view = "none" /\ NoOutput

\* merged.apply(calculate_metrics_row, axis=1), one row
ApplyRow ==
    /\ row_pc = "pending"
    /\ adj' = calculate_metrics_row(row, calc_mode)
    /\ row_pc' = "done"
    /\ UNCHANGED <<row, loadVars, dataVars, widgetVars, pc, outVars>>

RowNext == ApplyRow

RowSpec == RowInit /\ [][RowNext]_vars

----------------------------------------------------------------------------
(* The dashboard: every interaction reruns the script *)

\* the tables load_data returned, for the unit data ud
LoadedTables(ud) ==
    /\ LoadedOk
    /\ kpi = kpi_of(ud)
    /\ digital = digital_of(ud)
    /\ demographics = DemoTable(ud, 1)

Init ==
    /\ \E ud \in [Units -> UnitData] : LoadedTables(ud)
    /\ factor_df \in FactorTables
    /\ DefaultWidgets
    /\ calc_mode = "default"
    /\ pc = "rerun" /\ view = "none" /\ NoOutput
    /\ row = CHOOSE r \in Rows : TRUE
    /\ row_pc = "idle" /\ adj = NoAdj

\* sections 3 and 4 of the script, top to bottom (each \E over a singleton
\* names a value the script computes once)
RunScript ==
    /\ pc = "rerun"
    /\ pc' = "done"
    /\ LET pkg_mapping == pkg_mapping_of(filter_mode, selected_package_option,
                                         input_pkg_type, found_ids)
           final_selected_idns == final_selected_idns_of(filter_mode, selected_package_option,
                                                         input_pkg_type, found_ids,
                                                         selected_shelter_type,
                                                         selected_media_type, search_keyword)
       IN  IF loaded["kpi"] # "None" /\ final_selected_idns # {}
           THEN \E m \in {merged_of(final_selected_idns, pkg_mapping, calc_mode,
                                    selected_gender, selected_age_code)} :
                \E p \in SortedOrders(m, sort_target_of(sort_col_ui)) :
                \E fdfr \in {final_df_of(m, p, IF Len(m) > 0 THEN Min(top_n_input, Len(m)) ELSE 0)} :
                \E c \in {cur_of(fdfr, filter_mode, selected_package_option, factor_df)} :
                    /\ view' = "results"
                    /\ merged' = m
                    /\ full' = full_of(m, filter_mode, selected_package_option, factor_df)
                    /\ final_df' = fdfr
                    /\ cur' = c
                    /\ \E td \in {target_demo_of(demographics, final_selected_idns,
                                                   selected_gender, selected_age_code,
                                                   ratio_map_of(fdfr))} :
                          tab2' = tab2_of(demographics, td, c.cur_correction)
           ELSE /\ view' = IF loaded["kpi"] = "None" THEN "not-loaded" ELSE "no-data"
                /\ ClearOutput
    /\ UNCHANGED <<rowVars, loadVars, dataVars, widgetVars>>

\* a widget changed: the script starts again with fresh variables
Rerun ==
    /\ pc = "done"
    /\ pc' = "rerun"
    /\ view' = "none"
    /\ ClearOutput
    /\ UNCHANGED <<rowVars, loadVars, dataVars>>

SelectPackage ==
    /\ Rerun
    /\ filter_mode' = "package"
    /\ selected_package_option' \in PackageOptions
    /\ input_pkg_type' = "none" /\ found_ids' = {}
    /\ selected_shelter_type' = "all" /\ selected_media_type' = "all"
    /\ UNCHANGED <<search_keyword, demoFilterVars, calc_mode, sort_col_ui, top_n_input>>

\* filter mode 'custom': the ids of input_text that have a kpi row
EnterIds ==
    /\ Rerun
    /\ filter_mode' = "custom"
    /\ selected_package_option' = "none"
    /\ input_pkg_type' \in {"D", "P"}
    /\ found_ids' \in SUBSET Units
    /\ selected_shelter_type' = "all" /\ selected_media_type' = "all"
    /\ search_keyword' = <<>>
    /\ UNCHANGED <<demoFilterVars, calc_mode, sort_col_ui, top_n_input>>

SelectGender ==
    /\ Rerun
    /\ selected_gender' \in {"all"} \cup Genders
    /\ UNCHANGED <<selVars, typeFilterVars, search_keyword, selected_age_code, calc_mode, sort_col_ui, top_n_input>>

SelectAge ==
    /\ Rerun
    /\ selected_age_code' \in {0} \cup Ages
    /\ UNCHANGED <<selVars, typeFilterVars, search_keyword, selected_gender, calc_mode, sort_col_ui, top_n_input>>

SelectCalcMode ==
    /\ Rerun
    /\ calc_mode' \in Modes
    /\ UNCHANGED <<selVars, typeFilterVars, search_keyword, demoFilterVars, sort_col_ui, top_n_input>>

SelectSort ==
    /\ Rerun
    /\ sort_col_ui' \in {"ROTS", "Reach"}
    /\ UNCHANGED <<selVars, typeFilterVars, search_keyword, demoFilterVars, calc_mode, top_n_input>>

\* number_input(min_value=1, max_value=max_len)
SetTopN ==
    /\ view = "results"
    /\ Rerun
    /\ top_n_input' \in 1..Len(merged)
    /\ UNCHANGED <<selVars, typeFilterVars, search_keyword, demoFilterVars, calc_mode, sort_col_ui>>

Next ==
    \/ RunScript
    \/ SelectPackage
    \/ EnterIds
    \/ SelectGender
    \/ SelectAge
    \/ SelectCalcMode
    \/ SelectSort
    \/ SetTopN

Spec == Init /\ [][Next]_vars

----------------------------------------------------------------------------
(* The sidebar selection in full: the type filters and the search box of    *)
(* the package mode, over tables of tourist-info-panel posters and digital  *)
(* units (Spec keeps these three widgets at their defaults)                 *)

Keywords == {<<>>, <<"A">>, <<"s">>, <<"z">>}

SelUnitData ==
    {k \in UnitKinds : k.shelter_type = "tourist-info-panel" \/ k.media_type = "digital"}
        \X {"full"}

SelInit ==
    /\ \E ud \in [Units -> SelUnitData] : LoadedTables(ud)
    /\ factor_df = [q \in 1..MaxQty |-> FactorOf(q)]
    /\ DefaultWidgets
    /\ calc_mode = "default"
    /\ pc = "rerun" /\ view = "none" /\ NoOutput
    /\ row = CHOOSE r \in Rows : TRUE
    /\ row_pc = "idle" /\ adj = NoAdj

\* the context the two type selectboxes take their options from
PackageContext ==
    current_context_of(DOMAIN pkg_mapping_of("package", selected_package_option, "none", {}))

SelectShelterType ==
    /\ filter_mode = "package" /\ PackageContext # {}
    /\ Rerun
    /\ selected_shelter_type' \in {"all"} \cup avail_shelter_types_of(PackageContext)
    /\ UNCHANGED <<selVars, selected_media_type, search_keyword, demoFilterVars,
                   calc_mode, sort_col_ui, top_n_input>>

SelectMediaType ==
    /\ filter_mode = "package" /\ PackageContext # {}
    /\ Rerun
    /\ selected_media_type' \in {"all"} \cup avail_media_types_of(PackageContext)
    /\ UNCHANGED <<selVars, selected_shelter_type, search_keyword, demoFilterVars,
                   calc_mode, sort_col_ui, top_n_input>>

EnterSearch ==
    /\ filter_mode = "package"
    /\ Rerun
    /\ search_keyword' \in Keywords
    /\ UNCHANGED <<selVars, typeFilterVars, demoFilterVars, calc_mode, sort_col_ui, top_n_input>>

SelNext ==
    \/ RunScript
    \/ SelectPackage
    \/ EnterIds
    \/ SelectShelterType
    \/ SelectMediaType
    \/ EnterSearch

SelSpec == SelInit /\ [][SelNext]_vars

----------------------------------------------------------------------------
(* load_data followed by the first run of the script *)

NotLoaded == [t \in TableSet |-> "pending"]

LoadInit ==
    /\ client = "none"
    /\ fetch = [t \in TableSet |-> "idle"]
    /\ collect_i = 1
    /\ data = {}
    /\ raised = FALSE
    /\ load_pc = "connect"
    /\ loaded = NotLoaded
    /\ kpi = <<>> /\ digital = <<>> /\ demographics = <<>> /\ factor_df = <<>>
    /\ DefaultWidgets
    /\ calc_mode = "default"
    /\ pc = "loading" /\ view = "none" /\ NoOutput
    /\ row = CHOOSE r \in Rows : TRUE
    /\ row_pc = "idle" /\ adj = NoAdj

\* load_data returns res and the script unpacks it into the six globals; a
\* table that is None is held as the empty frame and never read
Return(res) ==
    /\ load_pc' = "returned"
    /\ loaded' = res
    /\ pc' = "rerun"
    /\ \E ud \in [Units -> SelUnitData] :
          /\ kpi' = IF res["kpi"] = "table" THEN kpi_of(ud) ELSE <<>>
          /\ digital' = IF res["digital"] = "table" THEN digital_of(ud) ELSE <<>>
          /\ demographics' = IF res["demographics"] = "table" THEN DemoTable(ud, 1) ELSE <<>>
    /\ factor_df' = IF res["factor"] = "table" THEN [q \in 1..MaxQty |-> FactorOf(q)] ELSE <<>>

\* get_bq_client: the client, or None after an exception
Connect ==
    /\ load_pc = "connect"
    /\ \E c \in {"ok", "failed"} :
          /\ client' = c
          /\ IF c = "failed"
             THEN /\ Return(load_result_of(TRUE, data))
             ELSE /\ load_pc' = "submit"
                  /\ UNCHANGED <<loaded, pc, dataVars>>
    /\ UNCHANGED <<fetch, collect_i, data, raised, rowVars, widgetVars, outVars>>

\* the six executor.submit calls
Submit ==
    /\ load_pc = "submit"
    /\ fetch' = [t \in TableSet |-> "running"]
    /\ load_pc' = "collect"
    /\ UNCHANGED <<client, collect_i, data, raised, loaded, dataVars,
                   rowVars, widgetVars, pc, outVars>>

\* a worker thread ends fetch_table, with the frame or with an exception
FetchDone ==
    /\ \E t \in TableSet :
          /\ fetch[t] = "running"
          /\ \E r \in {"ok", "failed"} : fetch' = [fetch EXCEPT ![t] = r]
    /\ UNCHANGED <<client, collect_i, data, raised, load_pc, loaded, dataVars,
                   rowVars, widgetVars, pc, outVars>>

\* one turn of "for future in futures": future.result() waits for the
\* task, stores the frame or raises the task's exception
Collect ==
    /\ load_pc = "collect"
    /\ fetch[TableKeys[collect_i]] \in {"ok", "failed"}
    /\ IF fetch[TableKeys[collect_i]] = "ok"
       THEN /\ data' = data \cup {TableKeys[collect_i]}
            /\ collect_i' = collect_i + 1
            /\ load_pc' = IF collect_i = Len(TableKeys) THEN "shutdown" ELSE "collect"
            /\ UNCHANGED raised
       ELSE /\ raised' = TRUE
            /\ load_pc' = "shutdown"
            /\ UNCHANGED <<data, collect_i>>
    /\ UNCHANGED <<client, fetch, loaded, dataVars, rowVars, widgetVars, pc, outVars>>

\* the end of the with block: shutdown(wait=True) waits for every task; an
\* exception then reaches the except clause, which returns
Shutdown ==
    /\ load_pc = "shutdown"
    /\ \A t \in TableSet : fetch[t] # "running"
    /\ IF raised
       THEN Return(load_result_of(TRUE, data))
       ELSE /\ load_pc' = "preprocess"
            /\ UNCHANGED <<loaded, pc, dataVars>>
    /\ UNCHANGED <<client, fetch, collect_i, data, raised, rowVars, widgetVars, outVars>>

\* the type conversions of the frames, which may raise, and the return
Preprocess ==
    /\ load_pc = "preprocess"
    /\ \E exc \in BOOLEAN :
          /\ raised' = exc
          /\ Return(load_result_of(exc, data))
    /\ UNCHANGED <<client, fetch, collect_i, data, rowVars, widgetVars, outVars>>

LoadNext ==
    \/ Connect
    \/ Submit
    \/ FetchDone
    \/ Collect
    \/ Shutdown
    \/ Preprocess
    \/ RunScript

LoadSpec == LoadInit /\ [][LoadNext]_vars

----------------------------------------------------------------------------
(* Claims about the Metric Adjuster, checked under RowSpec *)

Done == row_pc = "done"
Raw == <<row.rots, row.reach>>

\* the digital branch of the adjuster is the one that decides the row
DigitalBranch ==
    /\ calc_mode # "no-digital-formula"
    /\ ~(row.shelter_type = "tourist-info-panel" /\ row.media_type = "poster")
    /\ (row.package_type = "D" \/ row.media_type = "digital")
    /\ ~IsNull(row.stay_time)

\* the share the claims name: 0.05 in full-slot mode, share_of_time otherwise
ClaimShare == IF calc_mode = "digital-full-slot" THEN <<1, 20>> ELSE row.share_of_time

\* ((max(stay_time - 1, 0) + 30) / 30) * k * share * 0.5 as one fraction
ClaimFormula(k) ==
    LET st == row.stay_time
        sh == ClaimShare
        m == IF st[1] - st[2] > 0 THEN st[1] - st[2] ELSE 0
    IN  Rat((m + 30 * st[2]) * k[1] * sh[1], 30 * st[2] * k[2] * sh[2] * 2)

ScenarioRow(r) ==
    /\ r.rots = Num(1000) /\ r.reach = Num(500) /\ r.stay_time = Num(10)
    /\ r.share_of_time = <<1, 5>> /\ r.package_type = "D"
    /\ ~(r.shelter_type = "tourist-info-panel" /\ r.media_type = "poster")

\* C2: a row decided by the digital branch, with the share operand present,
\* has adjusted ROTS and Reach ((max(stay_time - 1, 0) + 30) / 30) * raw *
\* share * 0.5; the scenario row gives (130, 65) and, in full-slot mode,
\* (32.5, 16.25); stay_time <= 1 gives time factor 1, i.e. raw * share / 2.
C2_DigitalFormula ==
    (Done /\ DigitalBranch /\ ~IsNull(ClaimShare)) =>
        /\ adj = <<ClaimFormula(row.rots), ClaimFormula(row.reach)>>
        /\ (ScenarioRow(row) /\ calc_mode = "default") => adj = <<Num(130), Num(65)>>
        /\ (ScenarioRow(row) /\ calc_mode = "digital-full-slot")
              => adj = <<<<65, 2>>, <<65, 4>>>>
        /\ (row.stay_time[1] <= row.stay_time[2]) =>
              adj = <<Rat(row.rots[1] * ClaimShare[1], 2 * ClaimShare[2]),
                      Rat(row.reach[1] * ClaimShare[1], 2 * ClaimShare[2])>>

C2_Witness ==
    /\ Done /\ DigitalBranch /\ calc_mode = "default"
    /\ row.stay_time = <<1, 2>> /\ row.share_of_time = <<1, 5>>
    /\ row.rots = Num(1000) /\ adj = <<Num(100), Num(50)>>

\* C3: a tourist-info-panel poster row, in every mode other than
\* no-digital-formula, is adjusted to (raw_rots / 2, raw_reach / 2) whatever
\* its package_type, stay_time and share_of_time are.
C3_TouristPosterHalved ==
    (Done /\ calc_mode # "no-digital-formula"
          /\ row.shelter_type = "tourist-info-panel" /\ row.media_type = "poster")
      => adj = <<Rat(row.rots[1], 2 * row.rots[2]), Rat(row.reach[1], 2 * row.reach[2])>>

C3_Witness ==
    /\ Done /\ calc_mode = "default"
    /\ row.shelter_type = "tourist-info-panel" /\ row.media_type = "poster"
    /\ row.package_type = "D" /\ row.stay_time = Num(10) /\ row.share_of_time = <<1, 5>>
    /\ row.rots = Num(1000) /\ adj = <<Num(500), Num(250)>>

\* C4: in mode no-digital-formula every row is returned with its raw
\* (ROTS, Reach), whatever its other fields are.
C4_NoDigitalFormulaRaw ==
    (Done /\ calc_mode = "no-digital-formula") => adj = Raw

C4_Witness ==
    /\ Done /\ calc_mode = "no-digital-formula"
    /\ row.shelter_type = "tourist-info-panel" /\ row.media_type = "poster"
    /\ IsNull(row.stay_time) /\ IsNull(row.share_of_time)
    /\ row.rots = Num(1000) /\ adj = <<Num(1000), row.reach>>

\* a == b on doubles: False whenever an operand is NaN
REq(x, y) == ~IsNull(x) /\ ~IsNull(y) /\ x = y

\* C5: for every row to which the digital formula applies with stay_time
\* present, adjusted_reach * raw_rots == adjusted_rots * raw_reach, and when
\* both raw values are positive the ratio the allocator applies to the
\* unit's demographic ROTS (calc_ratio after fillna) is the factor the
\* adjuster applied to the unit's ROTS.
C5_RatioMetricIndependent ==
    (Done /\ apply_digital_formula(row) /\ ~IsNull(row.stay_time)) =>
        /\ REq(RMul(adj[2], row.rots), RMul(adj[1], row.reach))
        /\ (RGt(row.rots, Num(0)) /\ RGt(row.reach, Num(0))) =>
              REq(RMul(fillna1(calc_ratio(row.reach, adj[2])), row.rots), adj[1])

\* C9: a row decided by the digital branch in mode default whose
\* share_of_time is null is returned with its raw (ROTS, Reach), and no
\* returned value is NaN.
C9_NullShareReturnsRaw ==
    (Done /\ DigitalBranch /\ calc_mode = "default" /\ IsNull(row.share_of_time)) =>
        /\ adj = Raw
        /\ ~IsNull(adj[1]) /\ ~IsNull(adj[2])

MissingCategory == row.shelter_type = "nan" \/ row.media_type = "nan"

\* C10 as claimed: a row whose shelter_type or media_type is missing is
\* returned with its raw (ROTS, Reach) in every mode, package_type 'D'
\* with stay_time and share_of_time present included (the rows of C9, whose
\* share operand is null, are left to C9).
C10_MissingCategoryRaw ==
    (Done /\ MissingCategory /\ ~(DigitalBranch /\ IsNull(ClaimShare))) => adj = Raw

\* C10 as amended: a row whose shelter_type or media_type is missing never
\* matches the halving exception; it is returned raw unless the digital
\* branch decides it (package_type 'D', or media_type digital with the
\* shelter_type missing, stay_time present, mode not no-digital-formula),
\* and then, the share operand being present, the digital formula is applied.
C10_MissingCategoryAmended ==
    (Done /\ MissingCategory) =>
        /\ ~DigitalBranch => adj = Raw
        /\ (DigitalBranch /\ ~IsNull(ClaimShare)) =>
              adj = <<ClaimFormula(row.rots), ClaimFormula(row.reach)>>

C10_Witness ==
    /\ Done /\ row.shelter_type = "tourist-info-panel" /\ row.media_type = "nan"
    /\ row.package_type = "D" /\ calc_mode = "default"
    /\ row.stay_time = Num(10) /\ row.share_of_time = <<1, 5>>
    /\ row.rots = Num(1000) /\ row.reach = Num(500)
    /\ adj = <<Num(130), Num(65)>>

----------------------------------------------------------------------------
(* Claims about the aggregates and the allocation, checked under Spec *)

Results == pc = "done" /\ view = "results"

\* the package names that have an override weight
NamedPackages == {"GangnamD", "SeochoD", "ItaewonD", "JongnoD", "JongnoJungguMD"}

NamedOverride == filter_mode = "package" /\ selected_package_option \in NamedPackages

\* the largest quantity of the correction table
TableMax == CHOOSE q \in DOMAIN factor_df : \A r \in DOMAIN factor_df : r <= q

\* C6: with no named override, a selection larger than the largest quantity
\* of the correction table resolves to the factor of that largest quantity,
\* for the full selection and for the displayed subset.
C6_LookupCapped ==
    (Results /\ ~NamedOverride) =>
        /\ full.total_shelters > TableMax => full.correction_val = factor_df[TableMax]
        /\ cur.cur_count > TableMax => cur.cur_correction = factor_df[TableMax]

C6_Witness ==
    /\ Results /\ ~NamedOverride
    /\ DOMAIN factor_df = {1}
    /\ full.total_shelters = 2 /\ full.correction_val = <<9, 10>>
    /\ cur.cur_count = 2 /\ cur.cur_correction = <<9, 10>>

\* C7: with a named package selected and a non-empty selection, both
\* resolved factors are the NamedWeights value of the name (0.5430 for
\* GangnamD), whatever the size and whatever rows the quantity table has.
C7_NamedOverride ==
    (Results /\ NamedOverride) =>
        /\ full.total_shelters >= 1 /\ cur.cur_count >= 1
        /\ full.correction_val = region_pkg_weights[selected_package_option]
        /\ cur.cur_correction = region_pkg_weights[selected_package_option]
        /\ selected_package_option = "GangnamD" =>
              (full.correction_val = <<543, 1000>> /\ cur.cur_correction = <<543, 1000>>)

C7_Witness ==
    /\ Results /\ selected_package_option = "GangnamD"
    /\ DOMAIN factor_df = 1..MaxQty
    /\ full.total_shelters = 2 /\ full.correction_val = <<543, 1000>>
    /\ cur.cur_count = 1 /\ cur.cur_correction = <<543, 1000>>

\* C8: the frequency is total_rots / total_reach when total_reach > 0 and 0
\* otherwise, never a non-finite value; an empty frame resolves to
\* correction factor 0, total reach 0 and frequency 0.
C8_NoDivisionByZero ==
    /\ Results =>
        /\ ~IsNull(cur.freq)
        /\ cur.final_cur_reach[1] > 0 =>
              RMul(cur.freq, cur.final_cur_reach) = cur.cur_rots
        /\ cur.final_cur_reach[1] <= 0 => cur.freq = Num(0)
    /\ pc = "done" =>
        LET c0 == cur_of(<<>>, filter_mode, selected_package_option, factor_df)
            f0 == full_of(<<>>, filter_mode, selected_package_option, factor_df)
        IN  /\ c0.cur_correction = Num(0) /\ c0.final_cur_reach = Num(0) /\ c0.freq = Num(0)
            /\ f0.correction_val = Num(0) /\ f0.final_total_reach = Num(0)

\* the guard is what keeps the division away: a displayed subset with
\* positive ROTS whose corrected Reach is 0
C8_Witness ==
    /\ Results /\ cur.cur_count > 0
    /\ cur.cur_rots[1] > 0 /\ cur.final_cur_reach = Num(0) /\ cur.freq = Num(0)

\* the capped lookup quantity of a selection of the given size
LookupQty(size) == IF size < TableMax THEN size ELSE TableMax

\* C11: with no named override, when the correction table has no row at
\* min(size, largest quantity), the resolved factor is 0 (and with it the
\* corrected Reach), for the full selection and for the displayed subset;
\* the factor of another row is never taken.
C11_GapGivesZero ==
    (Results /\ ~NamedOverride) =>
        /\ LookupQty(full.total_shelters) \notin DOMAIN factor_df =>
              (full.correction_val = Num(0) /\ full.final_total_reach = Num(0))
        /\ LookupQty(cur.cur_count) \notin DOMAIN factor_df =>
              (cur.cur_correction = Num(0) /\ cur.final_cur_reach = Num(0))

\* a table with the single row of quantity 2: the displayed subset of size
\* 1 falls in the gap, the full selection of size 2 does not
C11_Witness ==
    /\ Results /\ ~NamedOverride
    /\ DOMAIN factor_df = {2}
    /\ full.total_shelters = 2 /\ full.correction_val = <<4, 5>>
    /\ cur.cur_count = 1 /\ cur.cur_rots[1] > 0
    /\ cur.cur_correction = Num(0) /\ cur.final_cur_reach = Num(0)

\* the units the claim resolves: of the package (or of the entered ids) the
\* ones that have a kpi row, pass both type filters and match the search
ClaimIds ==
    IF filter_mode = "package"
    THEN {u \in DOMAIN kpi :
            /\ (selected_package_option \in DOMAIN package
                    => u \in package[selected_package_option].ids)
            /\ selected_shelter_type \in {"all", kpi[u].shelter_type}
            /\ selected_media_type \in {"all", kpi[u].media_type}
            /\ search_keyword # <<>> => Contains(kpi[u].shelter_name, search_keyword)}
    ELSE found_ids \cap DOMAIN kpi

\* C12: a script run whose resolved id set is empty computes nothing and
\* shows the no-data message; a run that shows results has a non-empty id
\* set and non-empty frames in every stage.
C12_EmptySelectionGuard ==
    pc = "done" =>
        /\ ClaimIds = {} => (view = "no-data" /\ NoOutput)
        /\ view = "results" =>
              /\ ClaimIds # {}
              /\ {merged[i].ftr_idn : i \in 1..Len(merged)} = ClaimIds
              /\ full.total_shelters > 0 /\ cur.cur_count > 0

\* both type filters name a type of the package, and no unit has both
C12_Witness ==
    /\ pc = "done" /\ view = "no-data" /\ NoOutput
    /\ filter_mode = "package" /\ search_keyword = <<>>
    /\ selected_shelter_type = "tourist-info-panel" /\ selected_media_type = "digital"

\* the indices of the demographics rows of unit u that match the active
\* gender and age filter
MatchingRows(u) ==
    {i \in 1..Len(demographics) :
        /\ demographics[i].ftr_idn = u
        /\ selected_gender \in {"all", demographics[i].gender}
        /\ selected_age_code \in {0, demographics[i].age}}

RECURSIVE SumRows(_, _)
\* the sum of field f over the demographics rows of the index set I
SumRows(I, f) ==
    IF I = {} THEN Num(0)
    ELSE LET i == CHOOSE x \in I : TRUE
         IN  RAdd(demographics[i][f], SumRows(I \ {i}, f))

DemoFilterActive == selected_gender # "all" \/ selected_age_code # 0

\* C13: with a demographic filter active the raw (ROTS, Reach) of every
\* in-scope unit is the sum over the unit's demographics rows that match the
\* filter, (0, 0) when none matches; with no filter it is the unit's kpi
\* values. These raw values are what the adjuster is applied to.
C13_DemoSubstitution ==
    Results =>
        \A i \in 1..Len(merged) :
            LET u == merged[i].ftr_idn
            IN  /\ DemoFilterActive =>
                      /\ merged[i].rots = SumRows(MatchingRows(u), "rots")
                      /\ merged[i].reach = SumRows(MatchingRows(u), "reach")
                      /\ MatchingRows(u) = {} =>
                            (merged[i].rots = Num(0) /\ merged[i].reach = Num(0))
                /\ ~DemoFilterActive =>
                      (merged[i].rots = kpi[u].rots /\ merged[i].reach = kpi[u].reach)
                /\ calc_mode = "no-digital-formula" =>
                      (merged[i].adj_rots = merged[i].rots
                          /\ merged[i].adj_reach = merged[i].reach)

\* gender F: one unit has two matching rows whose sum differs from its kpi
\* values, the other unit has no demographics row and positive kpi values
C13_Witness ==
    /\ Results /\ selected_gender = "F" /\ selected_age_code = 0
    /\ \E i, j \in 1..Len(merged) :
          /\ Cardinality(MatchingRows(merged[i].ftr_idn)) = 2
          /\ merged[i].rots[1] > 0 /\ merged[i].rots # kpi[merged[i].ftr_idn].rots
          /\ MatchingRows(merged[j].ftr_idn) = {}
          /\ kpi[merged[j].ftr_idn].rots[1] > 0
          /\ merged[j].rots = Num(0) /\ merged[j].reach = Num(0)

AllTables == \A t \in TableSet : loaded[t] = "table"
AllNone == \A t \in TableSet : loaded[t] = "None"

\* C14 (LoadSpec): when load_data has returned, either all six results are
\* tables or all six are None; they are all None whenever the client or any
\* fetch failed, in whatever order the fetches ended; the main block of the
\* script runs only with all six tables, and with six None the run ends in
\* the not-loaded warning with nothing computed.
C14_LoadAllOrNone ==
    /\ load_pc = "returned" =>
          /\ AllTables \/ AllNone
          /\ (client = "failed" \/ \E t \in TableSet : fetch[t] = "failed") => AllNone
          /\ AllTables => (data = TableSet /\ \A t \in TableSet : fetch[t] = "ok")
    /\ load_pc # "returned" => (pc = "loading" /\ view = "none" /\ NoOutput)
    /\ view = "results" => AllTables
    /\ (pc = "done" /\ ~AllTables) => (AllNone /\ view = "not-loaded" /\ NoOutput)

\* the last fetch failed after the five others were collected
C14_Witness ==
    /\ pc = "done" /\ view = "not-loaded" /\ NoOutput
    /\ client = "ok" /\ fetch["demographics"] = "failed"
    /\ data = TableSet \ {"demographics"}
    /\ AllNone

DisplayedIds == {final_df[i].ftr_idn : i \in 1..Len(final_df)}

\* the row of the displayed subset of unit u
DisplayedRow(u) == CHOOSE f \in {final_df[i] : i \in 1..Len(final_df)} : f.ftr_idn = u

\* the demographics rows in scope: of the selected units, matching the filter
RowsInScope == UNION {MatchingRows(merged[i].ftr_idn) : i \in 1..Len(merged)}

\* C15: every demographics row in scope is kept; the ratio it is given is
\* adjusted_reach / raw_reach of its unit when the unit is displayed with
\* raw_reach > 0, 1.0 when the unit is displayed with raw_reach = 0, and 1.0
\* when the unit is not in the displayed subset, its rots and reach then
\* entering the group sums unchanged.
C15_RatioAndDefault ==
    (Results /\ tab2.status = "charts") =>
        /\ Len(tab2.target_demo) = Cardinality(RowsInScope)
        /\ \A i \in 1..Len(tab2.target_demo) :
              LET r == tab2.target_demo[i]
                  u == r.ftr_idn
              IN  /\ (u \in DisplayedIds /\ RGt(DisplayedRow(u).reach, Num(0))) =>
                        REq(r.calc_ratio,
                            RDiv(DisplayedRow(u).adj_reach, DisplayedRow(u).reach))
                  /\ (u \in DisplayedIds /\ DisplayedRow(u).reach = Num(0)) =>
                        r.calc_ratio = Num(1)
                  /\ u \notin DisplayedIds =>
                        /\ r.calc_ratio = Num(1)
                        /\ r.adj_demo_rots = r.rots /\ r.adj_demo_reach = r.reach

RECURSIVE SumField(_, _, _)
\* the sum of field f of a breakdown over the groups K
SumField(summ, K, f) ==
    IF K = {} THEN Num(0)
    ELSE LET k == CHOOSE x \in K : TRUE
         IN  RAdd(summ[k][f], SumField(summ, K \ {k}, f))

RECURSIVE SumJoined(_, _)
\* the sum of field f over the rows I of target_demo
SumJoined(I, f) ==
    IF I = {} THEN Num(0)
    ELSE LET i == CHOOSE x \in I : TRUE
         IN  RAdd(tab2.target_demo[i][f], SumJoined(I \ {i}, f))

\* the rows of target_demo of the (age, gender) group ag
CellRows(ag) ==
    {i \in 1..Len(tab2.target_demo) :
        tab2.target_demo[i].age = ag[1] /\ tab2.target_demo[i].gender = ag[2]}

\* C16: in the three breakdowns of tab 2 the (age, gender) cells of a gender
\* sum to the gender's ROTS and corrected Reach, the cells of an age
\* bracket sum to the bracket's, and every cell is the sum of its rows'
\* rots * ratio, and of their reach * ratio times the displayed-subset
\* correction factor.
C16_BreakdownsConsistent ==
    (Results /\ tab2.status = "charts") =>
        /\ \A g \in DOMAIN tab2.gender_summ :
              LET K == {ag \in DOMAIN tab2.pivot_demo : ag[2] = g}
              IN  /\ SumField(tab2.pivot_demo, K, "adj_demo_rots")
                        = tab2.gender_summ[g].adj_demo_rots
                  /\ SumField(tab2.pivot_demo, K, "adj_demo_reach")
                        = tab2.gender_summ[g].adj_demo_reach
        /\ \A a \in DOMAIN tab2.age_summ :
              LET K == {ag \in DOMAIN tab2.pivot_demo : ag[1] = a}
              IN  /\ SumField(tab2.pivot_demo, K, "adj_demo_rots")
                        = tab2.age_summ[a].adj_demo_rots
                  /\ SumField(tab2.pivot_demo, K, "adj_demo_reach")
                        = tab2.age_summ[a].adj_demo_reach
        /\ {ag[2] : ag \in DOMAIN tab2.pivot_demo} = DOMAIN tab2.gender_summ
        /\ {ag[1] : ag \in DOMAIN tab2.pivot_demo} = DOMAIN tab2.age_summ
        /\ \A ag \in DOMAIN tab2.pivot_demo :
              /\ tab2.pivot_demo[ag].adj_demo_rots = SumJoined(CellRows(ag), "adj_demo_rots")
              /\ tab2.pivot_demo[ag].adj_demo_reach
                    = RMul(SumJoined(CellRows(ag), "adj_demo_reach"), cur.cur_correction)
        /\ \A i \in 1..Len(tab2.target_demo) :
              LET r == tab2.target_demo[i]
              IN  /\ r.adj_demo_rots = RMul(r.rots, r.calc_ratio)
                  /\ r.adj_demo_reach = RMul(r.reach, r.calc_ratio)

\* gender F has two age cells with positive corrected Reach, under a
\* correction factor other than 0 and 1 and a ratio other than 1
C16_Witness ==
    /\ Results /\ tab2.status = "charts"
    /\ cur.cur_correction \notin {Num(0), Num(1)}
    /\ \E i \in 1..Len(tab2.target_demo) : tab2.target_demo[i].calc_ratio # Num(1)
    /\ {<<1, "F">>, <<MaxAge, "F">>, <<1, "M">>} \subseteq DOMAIN tab2.pivot_demo
    /\ tab2.pivot_demo[<<1, "F">>].adj_demo_reach[1] > 0
    /\ tab2.pivot_demo[<<MaxAge, "F">>].adj_demo_reach[1] > 0
    /\ tab2.gender_summ["F"].adj_demo_reach
          = RAdd(tab2.pivot_demo[<<1, "F">>].adj_demo_reach,
                 tab2.pivot_demo[<<MaxAge, "F">>].adj_demo_reach)

\* x <= y on doubles: False whenever an operand is NaN
RLe(x, y) == ~IsNull(x) /\ ~IsNull(y) /\ ~RGt(x, y)

\* the top-N in effect and the sort metric in effect
TopN == IF top_n_input < Len(merged) THEN top_n_input ELSE Len(merged)
SortKey == IF sort_col_ui = "ROTS" THEN "adj_rots" ELSE "adj_reach"

\* the factor the resolver gives a selection of size n > 0
ResolvedFor(n) ==
    IF NamedOverride THEN region_pkg_weights[selected_package_option]
    ELSE IF LookupQty(n) \in DOMAIN factor_df THEN factor_df[LookupQty(n)]
    ELSE Num(0)

ExcludedRows == {merged[i] : i \in {j \in 1..Len(merged) : merged[j].ftr_idn \notin DisplayedIds}}

\* C17: with top-N equal to the number of in-scope units the displayed
\* count, ROTS total, correction factor and corrected Reach are the
\* full-selection ones, for either sort key; with a smaller top-N the
\* displayed subset has exactly N units, the sort metric of every excluded
\* unit is <= that of every displayed unit, and the displayed correction
\* factor is the one resolved for size N.
C17_FullVsDisplayed ==
    Results =>
        /\ TopN = Len(merged) =>
              /\ cur.cur_count = full.total_shelters
              /\ cur.cur_rots = full.sum_adj_rots
              /\ cur.cur_correction = full.correction_val
              /\ cur.final_cur_reach = full.final_total_reach
        /\ TopN < Len(merged) =>
              /\ cur.cur_count = TopN /\ Cardinality(DisplayedIds) = TopN
              /\ \A e \in ExcludedRows : \A i \in 1..Len(final_df) :
                    RLe(e[SortKey], final_df[i][SortKey])
              /\ cur.cur_correction = ResolvedFor(TopN)

RECURSIVE SumReach(_)
\* the sum of adj_demo_reach over the groups of a breakdown
SumReach(summ) ==
    IF DOMAIN summ = {} THEN Num(0)
    ELSE LET k == CHOOSE x \in DOMAIN summ : TRUE
         IN  RAdd(summ[k].adj_demo_reach,
                  SumReach([x \in DOMAIN summ \ {k} |-> summ[x]]))

\* every row of target_demo joins to a unit of the displayed subset
AllRowsJoin ==
    \A i \in 1..Len(tab2.target_demo) : tab2.target_demo[i].ftr_idn \in DisplayedIds

\* the demographics rows in scope of every displayed unit add up to the raw
\* Reach of the unit
DemoAddsUp ==
    \A i \in 1..Len(final_df) :
        nansum(Column(SelectSeq(tab2.target_demo,
                                LAMBDA r : r.ftr_idn = final_df[i].ftr_idn), "reach"))
          = final_df[i].reach

\* C1: for a displayed subset to which every demographics row in scope
\* joins (and whose rows add up to the units' raw Reach), the corrected
\* Reach of the gender groups, and of the age groups, sums to the
\* displayed-subset total Reach.
C1_Reconciliation ==
    (Results /\ AllRowsJoin /\ DemoAddsUp) =>
        /\ SumReach(tab2.gender_summ) = cur.final_cur_reach
        /\ SumReach(tab2.age_summ) = cur.final_cur_reach

====
